---- MODULE Spec2Model ----
(***************************************************************************)
(* Model of the BMP280 driver of src/src/bmp280.rs: the driver handle, the *)
(* two-wire transport it talks through, the register encode/decode and the *)
(* fixed-point temperature compensation.                                    *)
(***************************************************************************)
EXTENDS Integers, Sequences, FiniteSets, TLC

VARIABLES
    pc,               \* "start" (no driver yet), "ready" (constructed), "panicked"
    overflow_checks,  \* build profile: TRUE = arithmetic overflow panics, FALSE = it wraps
    chip,             \* the BMP280 struct: addr, dig_*, _t_fine (com is kept apart)
    com,              \* the transactions the transport saw during the last call
    op,               \* name of the last call
    arg,              \* its argument
    ret               \* its return value

vars == <<pc, overflow_checks, chip, com, op, arg, ret>>

----------------------------------------------------------------------------
(* Bounds of the model *)

\* how many of ByteSamples a single-byte read may return
NumBytes == 4
\* how many of CalibSamples the calibration read may return
NumCalib == 5
\* how many of DataSamples the data-block read may return
NumData == 9
\* how many of AddrSamples new_with_address may be given
NumAddr == 2
\* how many of ConfigSamples and of ControlSamples the setters may be given
NumArgs == 3

----------------------------------------------------------------------------
(* Fixed-width integers *)

Pow2(n) == 2 ^ n

\* the value of a w-bit two's-complement pattern
AsSigned(bits, w) == IF bits >= Pow2(w - 1) THEN bits - Pow2(w) ELSE bits

\* the w-bit pattern of an integer
Bits(v, w) == v % Pow2(w)

\* wrap an integer into the signed w-bit range
WrapS(v, w) == AsSigned(Bits(v, w), w)

RECURSIVE BitAnd(_, _)
\* bitwise AND of two naturals
BitAnd(a, b) ==
    IF a = 0 \/ b = 0 THEN 0
    ELSE (a % 2) * (b % 2) + 2 * BitAnd(a \div 2, b \div 2)

RECURSIVE BitOr(_, _)
\* bitwise OR of two naturals
BitOr(a, b) ==
    IF a = 0 THEN b
    ELSE IF b = 0 THEN a
    ELSE (IF a % 2 = 1 \/ b % 2 = 1 THEN 1 ELSE 0) + 2 * BitOr(a \div 2, b \div 2)

\* x << n on a w-bit unsigned type: bits shifted out are dropped
ShlU(x, n, w) == (x * Pow2(n)) % Pow2(w)

\* x << n on a w-bit signed type
ShlS(x, n, w) == AsSigned((Bits(x, w) * Pow2(n)) % Pow2(w), w)

\* x >> n on a signed type: arithmetic shift, rounds toward minus infinity
Shr(x, n) == x \div Pow2(n)

\* a | b on w-bit signed values
OrS(a, b, w) == AsSigned(BitOr(Bits(a, w), Bits(b, w)), w)

\* The exact product a * b as hi * 2^16 + lo with 0 <= lo < 2^16, computed
\* in 8-bit limbs of b so that no partial result leaves the 32-bit range.
Mul(a, b) ==
    LET b1 == b \div 256
        b0 == b % 256
        U  == a * b1
        W  == (U % 256) * 256 + a * b0
    IN  [hi |-> (U \div 256) + (W \div 65536), lo |-> W % 65536]

\* whether an exact product is representable as i32
Fits32(p) == p.hi >= -32768 /\ p.hi <= 32767

\* the i32 a wrapping multiplication leaves
Wrap32(p) == WrapS(p.hi, 16) * 65536 + p.lo

\* the exact value of (hi * 2^16 + lo) >> n, for n <= 16
ShrP(p, n) == p.hi * Pow2(16 - n) + (p.lo \div Pow2(n))

----------------------------------------------------------------------------
(* Register map and enumerations *)

DEFAULT_ADDRESS == 118

Register ==
    [id |-> 208, reset |-> 224, status |-> 243, ctrl_meas |-> 244,
     config |-> 245, press |-> 247, calib00 |-> 136]

\* the identification byte that triggers the calibration load
BMP280_ID == 88

\* the byte reset() writes
RESET_MAGIC == 182

Standby ==
    [ms0_5 |-> 0, ms62_5 |-> 1, ms125 |-> 2, ms250 |-> 3, ms500 |-> 4,
     ms1000 |-> 5, ms2000 |-> 6, ms4000 |-> 7, unknown |-> 8]

Filter ==
    [off |-> 0, c2 |-> 1, c4 |-> 2, c8 |-> 3, c16 |-> 4, unknown |-> 5]

Oversampling ==
    [skipped |-> 0, x1 |-> 1, x2 |-> 2, x4 |-> 3, x8 |-> 4, x16 |-> 5]

PowerMode == [Sleep |-> 0, Forced |-> 1, Normal |-> 3]

\* every value of the Config struct
Config == [t_sb : DOMAIN Standby, filter : DOMAIN Filter]

\* every value of the Control struct
Control ==
    [osrs_t : DOMAIN Oversampling, osrs_p : DOMAIN Oversampling,
     mode : DOMAIN PowerMode]

----------------------------------------------------------------------------
(* The transport *)

Byte == 0 .. 255

Zeros(n) == [i \in 1 .. n |-> 0]

\* What one write_read may do to an n-byte receive buffer: succeed and fill
\* it, fail leaving it untouched, or fail after writing into it.
Outcomes(n, fills) ==
    [ok : {TRUE}, touched : {TRUE}, data : fills]
        \cup [ok : {FALSE}, touched : {FALSE}, data : {Zeros(n)}]
        \cup [ok : {FALSE}, touched : {TRUE}, data : fills]

\* a transaction sent to the default address whatever the driver's address is
write_read_DefaultAddress(addr, wr, n, out) ==
    [addr |-> DEFAULT_ADDRESS, wr |-> wr, n |-> n, ok |-> out.ok,
     buf |-> IF out.touched THEN out.data ELSE Zeros(n)]

\* com.write_read(addr, wr, &mut buf): the record of the transaction; buf is
\* the receive buffer afterwards (it was zero-initialised by every caller)
write_read(addr, wr, n, out) ==
    [addr |-> addr, wr |-> wr, n |-> n, ok |-> out.ok,
     buf |-> IF out.touched THEN out.data ELSE Zeros(n)]

\* a read_byte that tries once more when the transaction failed
read_byte_Retry(c, reg, out) ==
    LET tx == write_read(c.addr, <<reg>>, 1, out)
    IN  [com |-> IF tx.ok THEN <<tx>> ELSE <<tx, tx>>, val |-> tx.buf[1]]

\* read_byte: one transaction, error discarded, data[0] returned; com is the
\* sequence of transactions issued
read_byte(c, reg, out) ==
    LET tx == write_read(c.addr, <<reg>>, 1, out)
    IN  [com |-> <<tx>>, val |-> tx.buf[1]]

\* write_byte: one transaction, error and buffer discarded; the value is the
\* sequence of transactions issued
write_byte(c, reg, byte, out) == <<write_read(c.addr, <<reg, byte>>, 1, out)>>

----------------------------------------------------------------------------
(* Inputs the transport and the caller are drawn from *)

Prefix(s, n) == {s[i] : i \in 1 .. (IF n < Len(s) THEN n ELSE Len(s))}

\* 0x58 (the BMP280 id), 0x00, 0xFF, 0b00001001, 0b01011110, 0xB6, 0x60, 0x14
ByteSamples == <<88, 0, 255, 9, 94, 182, 96, 20>>

\* 0x76, 0x77 (the two addresses of the part), 0x00
AddrSamples == <<118, 119, 0>>

\* the little-endian bytes of a sequence of 16-bit words
LEBytes(words) ==
    [i \in 1 .. 2 * Len(words) |->
        IF i % 2 = 1 THEN Bits(words[(i + 1) \div 2], 16) % 256
        ELSE Bits(words[i \div 2], 16) \div 256]

\* 24-byte calibration blocks, little-endian words, written out byte by byte
CalibSamples ==
    << \* the datasheet's worked example: T1 = 27504, T2 = 26435, T3 = -1000, P1 = 36477, ...
       <<112, 107, 67, 103, 24, 252, 125, 142, 67, 214, 208, 11,
         39, 11, 140, 0, 249, 255, 140, 60, 248, 198, 112, 23>>,
       \* all 0xFF
       <<255, 255, 255, 255, 255, 255, 255, 255, 255, 255, 255, 255,
         255, 255, 255, 255, 255, 255, 255, 255, 255, 255, 255, 255>>,
       \* T1 = 0, T2 = 32767, T3 = -32768, then 1, -1, 2, -2, 256, -256, 255, -255, 128
       <<0, 0, 255, 127, 0, 128, 1, 0, 255, 255, 2, 0,
         254, 255, 0, 1, 0, 255, 255, 0, 1, 255, 128, 0>>,
       \* 24 distinct bytes
       <<48, 85, 122, 159, 196, 233, 14, 51, 88, 125, 162, 199,
         236, 17, 54, 91, 128, 165, 202, 239, 20, 57, 94, 131>>,
       \* T1 = 65535, T2 = 32767, T3 = 32767, P1 = 65535, P2 = 32767, P3 = -32768, ...
       <<255, 255, 255, 127, 255, 127, 255, 255, 255, 127, 0, 128,
         0, 0, 1, 0, 2, 0, 3, 0, 4, 0, 5, 0>>,
       \* all zero
       <<0, 0, 0, 0, 0, 0, 0, 0, 0, 0, 0, 0,
         0, 0, 0, 0, 0, 0, 0, 0, 0, 0, 0, 0>>,
       \* T1 = 32768, T2 = -32768, T3 = 1, P1 = 32768, P2 = 128, P3 = -129, ...
       <<0, 128, 0, 128, 1, 0, 0, 128, 128, 0, 127, 255,
         0, 0, 1, 0, 2, 0, 3, 0, 4, 0, 5, 0>>,
       \* 0x80, 0x01 repeated
       <<128, 1, 128, 1, 128, 1, 128, 1, 128, 1, 128, 1,
         128, 1, 128, 1, 128, 1, 128, 1, 128, 1, 128, 1>> >>

\* 6-byte data blocks (pressure MSB/LSB/XLSB, temperature MSB/LSB/XLSB): the
\* worked example raw = 0x7EED0, the same with other pressure bytes, the same
\* with other low bits of the XLSB, raw = 0xFFFFF, raw = 0, 0x80000, ...
DataSamples ==
    << <<0, 0, 0, 126, 237, 0>>,
       <<101, 90, 192, 126, 237, 0>>,
       <<0, 0, 0, 126, 237, 15>>,
       <<255, 255, 255, 255, 255, 255>>,
       <<0, 0, 0, 0, 0, 0>>,
       <<0, 0, 0, 128, 0, 0>>,
       <<0, 0, 0, 0, 0, 16>>,
       <<1, 2, 3, 0, 1, 0>>,
       <<0, 0, 0, 1, 0, 0>>,
       <<0, 0, 0, 255, 255, 240>>,
       <<0, 0, 0, 107, 112, 0>> >>

Bytes1(set) == {<<b>> : b \in set}

\* arguments of set_config: the reset value, the largest valid codes, both
\* sentinels, a mixed pair, ...
ConfigSamples ==
    << [t_sb |-> "ms0_5", filter |-> "off"],
       [t_sb |-> "ms4000", filter |-> "c16"],
       [t_sb |-> "unknown", filter |-> "unknown"],
       [t_sb |-> "ms125", filter |-> "c4"],
       [t_sb |-> "ms1000", filter |-> "unknown"] >>

\* arguments of set_control
ControlSamples ==
    << [osrs_t |-> "skipped", osrs_p |-> "skipped", mode |-> "Sleep"],
       [osrs_t |-> "x16", osrs_p |-> "x16", mode |-> "Normal"],
       [osrs_t |-> "x2", osrs_p |-> "x8", mode |-> "Forced"],
       [osrs_t |-> "x1", osrs_p |-> "x4", mode |-> "Normal"],
       [osrs_t |-> "x8", osrs_p |-> "x1", mode |-> "Sleep"] >>

----------------------------------------------------------------------------
(* The driver *)

\* the struct literal of new_with_address: everything but addr is zero
NewChip(addr) ==
    [addr |-> addr, dig_t1 |-> 0, dig_t2 |-> 0, dig_t3 |-> 0, _t_fine |-> 0,
     dig_p1 |-> 0, dig_p2 |-> 0, dig_p3 |-> 0, dig_p4 |-> 0, dig_p5 |-> 0,
     dig_p6 |-> 0, dig_p7 |-> 0, dig_p8 |-> 0, dig_p9 |-> 0]

\* ((data[k+1] as u16) << 8) | (data[k] as u16), k the 0-based offset
WordU(data, k) == BitOr(ShlU(data[k + 2], 8, 16), data[k + 1])

\* a decode that reads a signed coefficient as unsigned
WordS_Unsigned(data, k) == BitOr(ShlU(data[k + 2], 8, 16), data[k + 1])

\* ((data[k+1] as i16) << 8) | (data[k] as i16)
WordS(data, k) == OrS(ShlS(data[k + 2], 8, 16), data[k + 1], 16)

\* the decode of read_calibration, applied to the receive buffer
DecodeCalibration(c, data) ==
    [c EXCEPT !.dig_t1 = WordU(data, 0), !.dig_t2 = WordS(data, 2),
              !.dig_t3 = WordS(data, 4), !.dig_p1 = WordU(data, 6),
              !.dig_p2 = WordS(data, 8), !.dig_p3 = WordS(data, 10),
              !.dig_p4 = WordS(data, 12), !.dig_p5 = WordS(data, 14),
              !.dig_p6 = WordS(data, 16), !.dig_p7 = WordS(data, 18),
              !.dig_p8 = WordS(data, 20), !.dig_p9 = WordS(data, 22)]

\* read_calibration: one 24-byte read at calib00, error discarded
read_calibration(c, out) ==
    LET tx == write_read(c.addr, <<Register.calib00>>, 24, out)
    IN  [com |-> <<tx>>, chip |-> DecodeCalibration(c, tx.buf)]

\* a gate that loads the calibration from any device that answers
IdMatches_AnyDevice(b) == b # 0

\* the gate of new_with_address
IdMatches(b) == b = BMP280_ID

\* an integer as the i32 that holds it
ToI32(v) == Wrap32([hi |-> v \div 65536, lo |-> v % 65536])

\* x << n on i32
Shl32(x, n) == ToI32(x * Pow2(n))

\* (data[3] as i32) << 12 | (data[4] as i32) << 4 | (data[5] as i32) >> 4
RawTemp(data) ==
    BitOr(BitOr(Shl32(data[4], 12), Shl32(data[5], 4)), Shr(data[6], 4))

\* The compensation sequence of temp() on i32, every product kept exact (p1,
\* p2, p3) beside the i32 a wrapping build carries on with.
Compensation(raw, t1, t2, t3) ==
    LET p1 == Mul(Shr(raw, 3) - Shl32(t1, 1), t2)
        v1 == Shr(Wrap32(p1), 11)
        d  == Shr(raw, 4) - t1
        p2 == Mul(d, d)
        p3 == Mul(Shr(Wrap32(p2), 12), t3)
        v2 == Shr(Wrap32(p3), 14)
    IN  [p1 |-> p1, p2 |-> p2, p3 |-> p3, v1 |-> v1, v2 |-> v2,
         fine |-> v1 + v2,
         centi |-> Shr((v1 + v2) * 5 + 128, 8),
         overflow |-> ~Fits32(p1) \/ ~Fits32(p2) \/ ~Fits32(p3)]

\* what temp() leaves in the struct: no field is assigned
TempStore(c, fine) == c

\* temp(): one 6-byte read at press, error discarded, then the compensation;
\* an overflowing product panics when the build checks overflow. The value
\* returned is num as f64 / 100.0.
temp(c, out, checks) ==
    LET tx == write_read(c.addr, <<Register.press>>, 6, out)
        k  == Compensation(RawTemp(tx.buf), c.dig_t1, c.dig_t2, c.dig_t3)
    IN  [com |-> <<tx>>, panic |-> checks /\ k.overflow,
         chip |-> TempStore(c, k.fine),
         ret |-> [num |-> k.centi, den |-> 100]]

\* the t_sb match of config()
DecodeStandby(x) ==
    IF x = Standby.ms0_5 THEN "ms0_5"
    ELSE IF x = Standby.ms62_5 THEN "ms62_5"
    ELSE IF x = Standby.ms125 THEN "ms125"
    ELSE IF x = Standby.ms250 THEN "ms250"
    ELSE IF x = Standby.ms500 THEN "ms500"
    ELSE IF x = Standby.ms1000 THEN "ms1000"
    ELSE IF x = Standby.ms2000 THEN "ms2000"
    ELSE IF x = Standby.ms4000 THEN "ms4000"
    ELSE "unknown"

\* the filter match of config()
DecodeFilter(x) ==
    IF x = Filter.off THEN "off"
    ELSE IF x = Filter.c2 THEN "c2"
    ELSE IF x = Filter.c4 THEN "c4"
    ELSE IF x = Filter.c8 THEN "c8"
    ELSE IF x = Filter.c16 THEN "c16"
    ELSE "unknown"

\* a decode whose filter mask is one bit short
DecodeConfig_ShortMask(b) ==
    [t_sb |-> DecodeStandby(Shr(BitAnd(b, ShlU(7, 5, 8)), 5)),
     filter |-> DecodeFilter(Shr(BitAnd(b, ShlU(3, 2, 8)), 2))]

\* the decode of config(): (config & (0b111 << 5)) >> 5 and (config & (0b111 << 2)) >> 2
DecodeConfig(b) ==
    [t_sb |-> DecodeStandby(Shr(BitAnd(b, ShlU(7, 5, 8)), 5)),
     filter |-> DecodeFilter(Shr(BitAnd(b, ShlU(7, 2, 8)), 2))]

\* config(): one read of the config register, decoded
config(c, out) ==
    LET r == read_byte(c, Register.config, out)
    IN  [com |-> r.com, ret |-> DecodeConfig(r.val)]

\* a packing done in a wider type: the standby code is not cut to the byte
EncodeConfig_Wide(new) == Standby[new.t_sb] * 32 + Filter[new.filter] * 4

\* the byte set_config() packs: 0x00 | (t_sb as u8) << 5 | (filter as u8) << 2
EncodeConfig(new) ==
    BitOr(BitOr(0, ShlU(Standby[new.t_sb], 5, 8)), ShlU(Filter[new.filter], 2, 8))

\* set_config(new): one write of the packed byte to the config register
set_config(c, new, out) == write_byte(c, Register.config, EncodeConfig(new), out)

\* the byte set_control() packs: osrs_t << 5 | osrs_p << 2 | mode
EncodeControl(new) ==
    BitOr(BitOr(ShlU(Oversampling[new.osrs_t], 5, 8),
                ShlU(Oversampling[new.osrs_p], 2, 8)),
          PowerMode[new.mode])

\* set_control(new): one write of the packed byte to ctrl_meas
set_control(c, new, out) ==
    write_byte(c, Register.ctrl_meas, EncodeControl(new), out)

\* the osrs_t and osrs_p matches of control()
DecodeOversampling(x) ==
    IF x = Oversampling.skipped THEN "skipped"
    ELSE IF x = Oversampling.x1 THEN "x1"
    ELSE IF x = Oversampling.x2 THEN "x2"
    ELSE IF x = Oversampling.x4 THEN "x4"
    ELSE IF x = Oversampling.x8 THEN "x8"
    ELSE "x16"

\* a mode match without the fallback to Forced
DecodePowerMode_NoFallback(x) ==
    IF x = PowerMode.Sleep THEN "Sleep"
    ELSE IF x = PowerMode.Forced THEN "Forced"
    ELSE "Normal"

\* the mode match of control()
DecodePowerMode(x) ==
    IF x = PowerMode.Sleep THEN "Sleep"
    ELSE IF x = PowerMode.Forced THEN "Forced"
    ELSE IF x = PowerMode.Normal THEN "Normal"
    ELSE "Forced"

\* the decode of control()
DecodeControl(b) ==
    [osrs_t |-> DecodeOversampling(Shr(BitAnd(b, ShlU(7, 5, 8)), 5)),
     osrs_p |-> DecodeOversampling(Shr(BitAnd(b, ShlU(7, 2, 8)), 2)),
     mode |-> DecodePowerMode(BitAnd(b, 3))]

\* control(): one read of ctrl_meas, decoded
control(c, out) ==
    LET r == read_byte(c, Register.ctrl_meas, out)
    IN  [com |-> r.com, ret |-> DecodeControl(r.val)]

\* a decode that tests bit 2 for measuring
DecodeStatus_WrongBit(b) ==
    [measuring |-> 0 # BitAnd(b, 4), im_update |-> 0 # BitAnd(b, 1)]

\* the decode of status(): bits 3 and 0
DecodeStatus(b) ==
    [measuring |-> 0 # BitAnd(b, 8), im_update |-> 0 # BitAnd(b, 1)]

\* status(): one read of the status register, decoded
status(c, out) ==
    LET r == read_byte(c, Register.status, out)
    IN  [com |-> r.com, ret |-> DecodeStatus(r.val)]

\* id(): one read of the id register
id(c, out) ==
    LET r == read_byte(c, Register.id, out)
    IN  [com |-> r.com, ret |-> r.val]

\* a reset that writes the magic byte to the register next to the reset register
reset_WrongRegister(c, out) == write_byte(c, Register.reset + 1, RESET_MAGIC, out)

\* reset(): one write of the magic byte to the reset register
reset(c, out) == write_byte(c, Register.reset, RESET_MAGIC, out)

\* new_with_address(i2c, addr): the id read, then the calibration load if the
\* id matched; always Ok(chip)
new_with_address(addr, idOut, calOut) ==
    LET c0 == NewChip(addr)
        r  == id(c0, idOut)
        cal == read_calibration(c0, calOut)
    IN  IF IdMatches(r.ret)
        THEN [chip |-> cal.chip, com |-> r.com \o cal.com, ret |-> "Ok"]
        ELSE [chip |-> c0, com |-> r.com, ret |-> "Ok"]

\* new(i2c): new_with_address at the default address
new(idOut, calOut) == new_with_address(DEFAULT_ADDRESS, idOut, calOut)

----------------------------------------------------------------------------
(* The state machine: a caller constructs the driver, then calls it *)

none == "none"

SampleBytes == Prefix(ByteSamples, NumBytes)

\* what the device may put in the receive buffer of a single-byte write
WriteFills == {<<255>>}

\* a transport that either answers or fails before it touches the buffer
OkOrUntouched(n, fills) == {o \in Outcomes(n, fills) : o.ok = o.touched}

Init ==
    /\ pc = "start"
    /\ overflow_checks \in BOOLEAN
    /\ chip = NewChip(0)
    /\ com = <<>>
    /\ op = none
    /\ arg = none
    /\ ret = none

Constructed(r, name, a) ==
    /\ pc' = "ready"
    /\ chip' = r.chip
    /\ com' = r.com
    /\ op' = name
    /\ arg' = a
    /\ ret' = r.ret
    /\ UNCHANGED overflow_checks

New ==
    /\ pc = "start"
    /\ \E idOut \in Outcomes(1, Bytes1(SampleBytes)),
          calOut \in Outcomes(24, Prefix(CalibSamples, NumCalib)) :
          Constructed(new(idOut, calOut), "new", none)

NewWithAddress ==
    /\ pc = "start"
    /\ \E addr \in Prefix(AddrSamples, NumAddr),
          idOut \in Outcomes(1, Bytes1(SampleBytes)),
          calOut \in Outcomes(24, Prefix(CalibSamples, NumCalib)) :
          Constructed(new_with_address(addr, idOut, calOut), "new_with_address", addr)

\* a call that returns and leaves the struct alone
Returned(name, a, txs, r) ==
    /\ pc' = "ready"
    /\ com' = txs
    /\ op' = name
    /\ arg' = a
    /\ ret' = r
    /\ UNCHANGED <<overflow_checks, chip>>

Id(outs) ==
    /\ pc = "ready"
    /\ \E out \in outs :
          LET r == id(chip, out) IN Returned("id", none, r.com, r.ret)

Reset(outs) ==
    /\ pc = "ready"
    /\ \E out \in outs : Returned("reset", none, reset(chip, out), none)

GetStatus(outs) ==
    /\ pc = "ready"
    /\ \E out \in outs :
          LET r == status(chip, out) IN Returned("status", none, r.com, r.ret)

GetConfig(outs) ==
    /\ pc = "ready"
    /\ \E out \in outs :
          LET r == config(chip, out) IN Returned("config", none, r.com, r.ret)

SetConfig(vals, outs) ==
    /\ pc = "ready"
    /\ \E new_ \in vals, out \in outs :
          Returned("set_config", new_, set_config(chip, new_, out), none)

GetControl(outs) ==
    /\ pc = "ready"
    /\ \E out \in outs :
          LET r == control(chip, out) IN Returned("control", none, r.com, r.ret)

SetControl(vals, outs) ==
    /\ pc = "ready"
    /\ \E new_ \in vals, out \in outs :
          Returned("set_control", new_, set_control(chip, new_, out), none)

Temp(outs) ==
    /\ pc = "ready"
    /\ \E out \in outs :
          LET r == temp(chip, out, overflow_checks)
          IN  /\ pc' = IF r.panic THEN "panicked" ELSE "ready"
              /\ chip' = r.chip
              /\ com' = r.com
              /\ op' = "temp"
              /\ arg' = none
              /\ ret' = IF r.panic THEN none ELSE r.ret
              /\ UNCHANGED overflow_checks

\* The sets the actions draw from, each a constant evaluated once.
SampledReads == Outcomes(1, Bytes1(SampleBytes))
SampledData == Outcomes(6, Prefix(DataSamples, NumData))
SampledConfigs == Prefix(ConfigSamples, NumArgs)
SampledControls == Prefix(ControlSamples, NumArgs)
WriteOutcomes == Outcomes(1, WriteFills)
WriteOkOrUntouched == OkOrUntouched(1, WriteFills)
AnyReadOkOrUntouched == OkOrUntouched(1, Bytes1(Byte))
AnyRead == Outcomes(1, Bytes1(Byte))

\* The driver's life: construction over any transport, then any calls, with
\* sampled device bytes and sampled arguments.
Next ==
    \/ New
    \/ NewWithAddress
    \/ Id(SampledReads)
    \/ Reset(WriteOutcomes)
    \/ GetStatus(SampledReads)
    \/ GetConfig(SampledReads)
    \/ SetConfig(SampledConfigs, WriteOutcomes)
    \/ GetControl(SampledReads)
    \/ SetControl(SampledControls, WriteOutcomes)
    \/ Temp(SampledData)

Spec == Init /\ [][Next]_vars

\* A driver constructed by new() over a transport whose identification read
\* failed: where the register specifications below start.
InitRegs ==
    LET r == new([ok |-> FALSE, touched |-> FALSE, data |-> Zeros(1)],
                 [ok |-> FALSE, touched |-> FALSE, data |-> Zeros(24)])
    IN  /\ pc = "ready"
        /\ overflow_checks \in BOOLEAN
        /\ chip = r.chip
        /\ com = r.com
        /\ op = "new"
        /\ arg = none
        /\ ret = r.ret

\* The configuration register: every Config value written, every byte read.
NextConfig ==
    \/ SetConfig(Config, WriteOkOrUntouched)
    \/ GetConfig(AnyReadOkOrUntouched)

SpecConfig == InitRegs /\ [][NextConfig]_vars

\* The control register: every Control value written, every byte read.
NextControl ==
    \/ SetControl(Control, WriteOkOrUntouched)
    \/ GetControl(AnyReadOkOrUntouched)

SpecControl == InitRegs /\ [][NextControl]_vars

\* The status register: every byte read, also after a failed read that wrote
\* into the buffer.
NextStatus ==
    \/ GetStatus(AnyRead)

SpecStatus == InitRegs /\ [][NextStatus]_vars

----------------------------------------------------------------------------
(* Properties *)

Constructors == {"new", "new_with_address"}

PublicOps ==
    {"id", "reset", "status", "config", "set_config", "control",
     "set_control", "temp"}

\* the nine calibration coefficients, in the order of the calibration block
Coefficients(c) ==
    <<c.dig_t1, c.dig_t2, c.dig_t3, c.dig_p1, c.dig_p2, c.dig_p3, c.dig_p4,
      c.dig_p5, c.dig_p6, c.dig_p7, c.dig_p8, c.dig_p9>>

\* a transaction that failed and left its receive buffer as it was
FailedUntouched(tx) == ~tx.ok /\ tx.buf = Zeros(tx.n)

\* C1: construction always returns Ok; it reads the identification register
\* first, reads the 24-byte calibration block if and only if that read
\* returned 0x58, and leaves all coefficients zero when the identification
\* byte is anything else or when the identification read or the calibration
\* read failed without touching its buffer.
C1_ConstructionNeverFails ==
    op \in Constructors =>
        /\ pc = "ready"
        /\ ret = "Ok"
        /\ chip.addr = (IF op = "new" THEN 118 ELSE arg)
        /\ Len(com) \in {1, 2}
        /\ com[1].wr = <<208>> /\ com[1].n = 1
        /\ (Len(com) = 2) <=> (com[1].buf[1] = 88)
        /\ (Len(com) = 2) => (com[2].wr = <<136>> /\ com[2].n = 24)
        /\ ( \/ com[1].buf[1] # 88
             \/ FailedUntouched(com[1])
             \/ (Len(com) = 2 /\ FailedUntouched(com[2])) )
           => Coefficients(chip) = Zeros(12)

\* a device that answers the identification read with a byte other than 0x58
\* and 0: the driver is returned with zeroed calibration
C1_Witness ==
    /\ op = "new_with_address"
    /\ ret = "Ok"
    /\ com[1].ok
    /\ com[1].buf[1] = 255
    /\ Len(com) = 1
    /\ Coefficients(chip) = Zeros(12)

\* the compensation of the claim, on mathematical integers
IdealCenti(raw, t1, t2, t3) ==
    LET v1 == ShrP(Mul(Shr(raw, 3) - t1 * 2, t2), 11)
        d  == Shr(raw, 4) - t1
        v2 == ShrP(Mul(ShrP(Mul(d, d), 12), t3), 14)
    IN  Shr((v1 + v2) * 5 + 128, 8)

\* (byte3 << 12) | (byte4 << 4) | (byte5 >> 4)
ClaimRaw(data) == data[4] * 4096 + data[5] * 16 + (data[6] \div 16)

\* C2: for every data block and every calibration temp() returns
\* centidegrees / 100 with centidegrees computed by the documented integer
\* sequence on raw = (byte3<<12) | (byte4<<4) | (byte5>>4); for T1 = 27504,
\* T2 = 26435, T3 = -1000 and raw = 519888 that is 2508.
C2_TempFormula ==
    op = "temp" =>
        /\ pc = "ready"
        /\ ret = [num |-> IdealCenti(ClaimRaw(com[1].buf), chip.dig_t1,
                                     chip.dig_t2, chip.dig_t3),
                  den |-> 100]
        /\ ( /\ chip.dig_t1 = 27504 /\ chip.dig_t2 = 26435
             /\ chip.dig_t3 = -1000 /\ ClaimRaw(com[1].buf) = 519888 )
           => ret.num = 2508

\* C3: no public operation panics, and every product of temp()'s
\* compensation sequence stays within the signed 32-bit range.
C3_NoOverflow ==
    /\ pc # "panicked"
    /\ op = "temp" =>
          ~Compensation(RawTemp(com[1].buf), chip.dig_t1, chip.dig_t2,
                        chip.dig_t3).overflow

\* the value of the little-endian 16-bit word at 0-based offset k
LEWord(data, k) == data[k + 1] + 256 * data[k + 2]

\* the same word as two's complement
LEWordSigned(data, k) ==
    IF LEWord(data, k) >= 32768 THEN LEWord(data, k) - 65536 ELSE LEWord(data, k)

\* C4: the calibration decode maps the 24-byte block to the nine (here: all
\* twelve) coefficients as little-endian 16-bit words, bytes [0,1] and [6,7]
\* unsigned and the others signed, and re-encoding the coefficients
\* little-endian gives back the bytes read.
C4_CalibrationDecode ==
    (op \in Constructors /\ Len(com) = 2) =>
        LET data == com[2].buf
        IN  /\ \A j \in 1 .. 12 :
                  Coefficients(chip)[j] =
                      IF j \in {1, 4} THEN LEWord(data, 2 * (j - 1))
                      ELSE LEWordSigned(data, 2 * (j - 1))
            /\ LEBytes(Coefficients(chip)) = data

\* the datasheet's block was read: T1 = 27504 unsigned, T3 = -1000 signed
C4_Witness ==
    /\ op = "new"
    /\ Len(com) = 2
    /\ com[2].ok
    /\ chip.dig_t1 = 27504
    /\ chip.dig_t3 = -1000
    /\ chip.dig_p1 = 36477
    /\ chip.dig_p9 = 6000

\* C5: after a call of temp() the fine-temperature field holds v1 + v2 of
\* that call.
C5_FineRetained ==
    (op = "temp" /\ pc = "ready") =>
        chip._t_fine =
            Compensation(RawTemp(com[1].buf), chip.dig_t1, chip.dig_t2,
                         chip.dig_t3).fine

\* the three bits of b starting at bit k
Field3(b, k) == (b \div Pow2(k)) % 8

ValidConfig == {v \in Config : v.t_sb # "unknown" /\ v.filter # "unknown"}

\* C6: for every valid (standby, filter) pair, decoding the byte that
\* set_config() writes gives the pair back; for every register byte config()
\* returns a value, whose filter is the unknown sentinel exactly when bits 4-2
\* are 0b101, 0b110 or 0b111 and whose standby is never the sentinel.
C6_ConfigRoundTrip ==
    /\ (op = "set_config" /\ arg \in ValidConfig) =>
          DecodeConfig(com[1].wr[2]) = arg
    /\ op = "config" =>
          LET b == com[1].buf[1]
          IN  /\ pc = "ready"
              /\ ret \in Config
              /\ ret.t_sb # "unknown"
              /\ Standby[ret.t_sb] = Field3(b, 5)
              /\ (ret.filter = "unknown") <=> (Field3(b, 2) \in {5, 6, 7})
              /\ (ret.filter # "unknown") => (Filter[ret.filter] = Field3(b, 2))

\* set_config((ms4000, c16)) wrote 0b11110000
C6_Witness ==
    /\ op = "set_config"
    /\ arg = [t_sb |-> "ms4000", filter |-> "c16"]
    /\ com[1].wr = <<245, 240>>

\* C7: for every Control value, decoding the byte that set_control() writes
\* (temperature oversampling in bits 7-5, pressure oversampling in bits 4-2,
\* mode in bits 1-0) gives the value back, and those mode bits are never
\* 0b10; for every register byte control() returns a value, mode bits 0b10
\* giving Forced and oversampling patterns 0b110 and 0b111 giving x16.
C7_ControlRoundTrip ==
    /\ op = "set_control" =>
          LET b == com[1].wr[2]
          IN  /\ DecodeControl(b) = arg
              /\ Field3(b, 5) = Oversampling[arg.osrs_t]
              /\ Field3(b, 2) = Oversampling[arg.osrs_p]
              /\ b % 4 = PowerMode[arg.mode]
              /\ b % 4 # 2
    /\ op = "control" =>
          LET b == com[1].buf[1]
          IN  /\ pc = "ready"
              /\ ret \in Control
              /\ (b % 4 = 2) => (ret.mode = "Forced")
              /\ (b % 4 # 2) => (PowerMode[ret.mode] = b % 4)
              /\ (Field3(b, 5) \in {6, 7}) => (ret.osrs_t = "x16")
              /\ (Field3(b, 5) <= 5) => (Oversampling[ret.osrs_t] = Field3(b, 5))
              /\ (Field3(b, 2) \in {6, 7}) => (ret.osrs_p = "x16")
              /\ (Field3(b, 2) <= 5) => (Oversampling[ret.osrs_p] = Field3(b, 2))

\* control() read 0b11011010: oversampling 0b110 twice and mode 0b10
C7_Witness ==
    /\ op = "control"
    /\ com[1].ok
    /\ com[1].buf = <<218>>
    /\ ret = [osrs_t |-> "x16", osrs_p |-> "x16", mode |-> "Forced"]

C9_FailureDecodesZeros ==
    (op \in {"id", "status", "config", "control", "temp"}
        /\ FailedUntouched(com[1])) =>
        /\ pc = "ready"
        /\ op = "id" => ret = 0
        /\ op = "status" => ret = [measuring |-> FALSE, im_update |-> FALSE]
        /\ op = "config" => ret = [t_sb |-> "ms0_5", filter |-> "off"]
        /\ op = "control" =>
              ret = [osrs_t |-> "skipped", osrs_p |-> "skipped", mode |-> "Sleep"]
        /\ op = "temp" =>
              ret = [num |-> IdealCenti(0, chip.dig_t1, chip.dig_t2, chip.dig_t3),
                     den |-> 100]

\* C10: for every Config value, the sentinels included, the byte set_config()
\* writes has bits 1-0 zero, bits 4-2 the filter's code and bits 7-5 the
\* standby's code cut to 3 bits; Standby::unknown is written as 0b000 and
\* reads back as ms0_5.
C10_SetConfigFields ==
    op = "set_config" =>
        LET b == com[1].wr[2]
        IN  /\ b \in Byte
            /\ b % 4 = 0
            /\ Field3(b, 2) = Filter[arg.filter]
            /\ b \div 32 = Standby[arg.t_sb] % 8
            /\ (arg.t_sb = "unknown") =>
                  (b \div 32 = 0 /\ DecodeConfig(b).t_sb = "ms0_5")

\* set_config((unknown, unknown)) wrote 0b00010100
C10_Witness ==
    /\ op = "set_config"
    /\ arg = [t_sb |-> "unknown", filter |-> "unknown"]
    /\ com[1].wr = <<245, 20>>

\* C11: for every status register byte, status() returns measuring = (bit 3
\* is set) and im_update = (bit 0 is set); the other six bits do not count.
\* 0b00001001 gives both true, 0b00000000 both false.
C11_StatusBits ==
    op = "status" =>
        LET b == com[1].buf[1]
        IN  /\ pc = "ready"
            /\ ret = [measuring |-> (b \div 8) % 2 = 1, im_update |-> b % 2 = 1]
            /\ (b = 9) => (ret.measuring /\ ret.im_update)
            /\ (b = 0) => (~ret.measuring /\ ~ret.im_update)

\* status() read 0b11111110 from the device: measuring, no im_update
C11_Witness ==
    /\ op = "status"
    /\ com[1].ok
    /\ com[1].buf = <<254>>
    /\ ret = [measuring |-> TRUE, im_update |-> FALSE]

\* what the register map fixes for the one transaction of a call: the bytes
\* written before the argument byte, and the number of bytes read
MapOf(name) ==
    CASE name = "id" -> [reg |-> 208, n |-> 1, writes |-> FALSE]
      [] name = "status" -> [reg |-> 243, n |-> 1, writes |-> FALSE]
      [] name = "control" -> [reg |-> 244, n |-> 1, writes |-> FALSE]
      [] name = "config" -> [reg |-> 245, n |-> 1, writes |-> FALSE]
      [] name = "set_control" -> [reg |-> 244, n |-> 1, writes |-> TRUE]
      [] name = "set_config" -> [reg |-> 245, n |-> 1, writes |-> TRUE]
      [] name = "reset" -> [reg |-> 224, n |-> 1, writes |-> TRUE]
      [] name = "temp" -> [reg |-> 247, n |-> 6, writes |-> FALSE]

\* C12: every transaction addresses the register the register map fixes:
\* id() reads 1 byte at 0xD0, status() at 0xF3, control() at 0xF4, config()
\* at 0xF5; set_control() writes to 0xF4 and set_config() to 0xF5; temp()
\* reads 6 bytes at 0xF7; the calibration load reads 24 bytes at 0x88;
\* reset() writes exactly 0xB6 to 0xE0 and changes nothing else in the driver.
C12_RegisterMap ==
    [][ /\ op' \in PublicOps =>
              /\ com'[1].wr[1] = MapOf(op').reg
              /\ com'[1].n = MapOf(op').n
              /\ Len(com'[1].wr) = (IF MapOf(op').writes THEN 2 ELSE 1)
        /\ op' \in Constructors =>
              /\ com'[1].wr = <<208>> /\ com'[1].n = 1
              /\ (Len(com') = 2) => (com'[2].wr = <<136>> /\ com'[2].n = 24)
        /\ op' = "reset" =>
              /\ com'[1].wr = <<224, 182>>
              /\ chip' = chip
              /\ pc' = pc ]_vars

\* reset() wrote 0xB6 to 0xE0 on a driver holding the datasheet's calibration
C12_Witness ==
    /\ op = "reset"
    /\ com = <<[addr |-> 119, wr |-> <<224, 182>>, n |-> 1, ok |-> TRUE,
                buf |-> <<255>>]>>
    /\ chip.addr = 119
    /\ chip.dig_t1 = 27504

\* the address the driver was constructed with, as a constructor leaves it
GivenAddress == IF op = "new" THEN 118 ELSE arg

\* C13: after construction every public operation, whether its transaction
\* succeeds or fails, leaves the nine (here: all twelve) calibration
\* coefficients and the device address unchanged, addresses its transaction
\* to the address given at construction (0x76 for new), and never reads the
\* calibration block again, not even after reset().
C13_CalibrationAndAddressFixed ==
    [][ /\ op' \in Constructors =>
              /\ chip'.addr = GivenAddress'
              /\ \A i \in 1 .. Len(com') : com'[i].addr = GivenAddress'
        /\ pc = "ready" =>
              /\ op' \in PublicOps
              /\ Coefficients(chip') = Coefficients(chip)
              /\ chip'.addr = chip.addr
              /\ \A i \in 1 .. Len(com') :
                    /\ com'[i].addr = chip.addr
                    /\ com'[i].wr[1] # 136
                    /\ com'[i].n # 24 ]_vars

\* temp() is called right after reset() on a driver constructed at 0x77 with
\* the datasheet's calibration: the transaction goes to 0x77 and the
\* coefficients are those read at construction
C13_Witness ==
    /\ op = "temp"
    /\ chip.addr = 119
    /\ com[1].addr = 119
    /\ ~com[1].ok
    /\ Coefficients(chip) =
          <<27504, 26435, -1000, 36477, -10685, 3024, 2855, 140, -7, 15500,
            -14600, 6000>>

====
